---- MODULE Spec2Model ----
(***************************************************************************)
(* The chat controllers of the therapy-assistant backend as a state        *)
(* machine: the session collection, and one process per inbound HTTP       *)
(* request whose steps are the stretches of handler code between awaits.   *)
(* Three copies of the controller exist in the repository; `variant` says  *)
(* which one serves the requests of a behaviour:                           *)
(*   "chat" : ai-therapist-agent-backend-main/src/controllers/chat.ts      *)
(*   "p3"   : src/unnamed/part_003 (earlier controller)                    *)
(*   "p4"   : src/unnamed/part_004                                         *)
(***************************************************************************)
EXTENDS Integers, Sequences, FiniteSets, TLC

\* ------------------------------------------------------------------ bounds
MaxReq == 2
HistPairs == 6

\* ------------------------------------------------------- program constants
Window == 12

Reqs == 1..MaxReq
Variants == {"chat", "p3", "p4"}

\* req.user?.id: "" stands for an absent (or empty) authenticated identity. The
\* routers mount an auth middleware whose code is not among the sources; the
\* handlers test req.user?.id themselves, and a handler is modelled as it
\* behaves when it is called with or without an identity.
NoUser == ""
Users == {"u1", "u2"}
Callers == Users \cup {NoUser}
\* The users collection: u2 is an authenticated identity without a user record.
UserRecords == {"u1"}

\* --------------------------------------------------------------------- text
\* A text is a sequence of lexical tokens; WS is a run of whitespace.
\* Undefined is an absent value: a missing body field, a null content.
Undefined == <<"<undefined>">>
WS == " "
\* The markdown fence markers: three backquotes followed by json, and three backquotes.
FenceJson == "<fence>json"
Fence == "<fence>"

Falsy(s) == s = Undefined \/ s = <<>>

RECURSIVE TrimLeft(_)
TrimLeft(s) == IF s # <<>> /\ Head(s) = WS THEN TrimLeft(Tail(s)) ELSE s

RECURSIVE TrimRight(_)
TrimRight(s) ==
  IF s # <<>> /\ s[Len(s)] = WS THEN TrimRight(SubSeq(s, 1, Len(s) - 1)) ELSE s

\* String.prototype.trim
Trim(s) == TrimRight(TrimLeft(s))

\* content?.trim() || ""
ContentText(content) ==
  IF content = Undefined THEN <<>> ELSE Trim(content)

IsFence(t) == t = FenceJson \/ t = Fence
NotFence(t) == ~IsFence(t)
\* text.replace(fence markers, "").trim()
StripFences(s) == Trim(SelectSeq(s, NotFence))

\* --------------------------------------------------------------- JSON values
JNull == [t |-> "null", v |-> <<>>]
JNum(n) == [t |-> "num", v |-> n]
JArr == [t |-> "arr", v |-> <<>>]
JObj(fields) == [t |-> "obj", v |-> fields]

FullAnalysis ==
  JObj([emotionalState |-> "anxious", themes |-> <<"work">>, riskLevel |-> 5,
        recommendedApproach |-> "cbt", progressIndicators |-> <<"opened up">>])
PartialAnalysis == JObj([emotionalState |-> "sad"])
MildAnalysis ==
  JObj([emotionalState |-> "tense", themes |-> <<"sleep">>, riskLevel |-> 4,
        recommendedApproach |-> "grounding", progressIndicators |-> <<>>])

\* let analysis = { emotionalState: "neutral", ... }
DefaultAnalysis ==
  JObj([emotionalState |-> "neutral", themes |-> <<>>, riskLevel |-> 0,
        recommendedApproach |-> "supportive listening",
        progressIndicators |-> <<>>])

JsonTokens == {"{full}", "{partial}", "{mild}", "null", "7", "[]"}
TokenValue(t) ==
  CASE t = "{full}" -> FullAnalysis
    [] t = "{partial}" -> PartialAnalysis
    [] t = "{mild}" -> MildAnalysis
    [] t = "null" -> JNull
    [] t = "7" -> JNum(7)
    [] OTHER -> JArr

NotWS(t) == t # WS
\* JSON.parse: whitespace around the one value is skipped; anything else throws.
JSONParse(s) ==
  LET body == SelectSeq(s, NotWS)
  IN IF Len(body) = 1 /\ body[1] \in JsonTokens
       THEN [ok |-> TRUE, val |-> TokenValue(body[1])]
       ELSE [ok |-> FALSE, val |-> JNull]

\* analysis?.f : undefined unless analysis is an object holding f
HasField(a, f) == a.t = "obj" /\ f \in DOMAIN a.v
\* analysis?.emotionalState || "neutral"
ProgressState(a) ==
  IF HasField(a, "emotionalState") THEN a.v.emotionalState ELSE "neutral"
\* Number(analysis?.riskLevel || 0)
ProgressRisk(a) == IF HasField(a, "riskLevel") THEN a.v.riskLevel ELSE 0

\* ----------------------------------------------------------------- the store
\* A stored message; `by` is the request that appended it (0: before Init).
NoMeta == [has |-> FALSE, analysis |-> JNull, emotionalState |-> "", riskLevel |-> 0]
\* metadata: { analysis, progress: { emotionalState, riskLevel } }
Meta(a) ==
  [has |-> TRUE, analysis |-> a, emotionalState |-> ProgressState(a),
   riskLevel |-> ProgressRisk(a)]

Message(role, content, ts, meta, by) ==
  [role |-> role, content |-> content, timestamp |-> ts, metadata |-> meta,
   by |-> by]

\* A session that earlier requests left n pairs in.
History(n) ==
  [i \in 1..(2 * n) |->
     IF i % 2 = 1
       THEN Message("user", <<"m", ToString(i)>>, 1 + ((i + 1) \div 2), NoMeta, 0)
       ELSE Message("assistant", <<"m", ToString(i)>>, 1 + ((i + 1) \div 2),
                    Meta(DefaultAnalysis), 0)]

Session(id, uid, start, msgs) ==
  [sessionId |-> id, userId |-> uid, startTime |-> start, status |-> "active",
   messages |-> msgs]
\* findOne's null
NoSession ==
  [sessionId |-> "", userId |-> "", startTime |-> 0, status |-> "",
   messages |-> <<>>]

\* A faulty identifier source, for the sensitivity of CreateAddsOneSession: the
\* same identifier every time.
SameSessionId(coll) == "s1"

\* uuidv4(): an identifier no stored session has
NewSessionId(coll) == "c" \o ToString(Len(coll))

\* The first document of the collection matching the filter, or null.
RECURSIVE FindFirst(_, _, _, _)
FindFirst(coll, sid, uid, byOwner) ==
  IF coll = <<>> THEN NoSession
  ELSE IF Head(coll).sessionId = sid /\ (~byOwner \/ Head(coll).userId = uid)
    THEN Head(coll)
    ELSE FindFirst(Tail(coll), sid, uid, byOwner)

\* ChatSession.findOne({ sessionId, userId })
FindOneOwned(coll, sid, uid) == FindFirst(coll, sid, uid, TRUE)
\* ChatSession.findOne({ sessionId })
FindOneById(coll, sid) == FindFirst(coll, sid, NoUser, FALSE)

\* ChatSession.find({ userId })
OwnedBy(coll, uid) ==
  LET Mine(s) == s.userId = uid IN SelectSeq(coll, Mine)

\* session.save() after messages.push(...): the store appends the pushed
\* messages to the stored list as one atomic write.
StoreAppend(stored, pushed) == stored \o pushed

\* A faulty save, for the sensitivity of AppendOnly: the stored list is
\* replaced by the pushed messages.
SaveSessionReplace(coll, sid, pushed) ==
  [i \in 1..Len(coll) |->
     IF coll[i].sessionId = sid
       THEN [coll[i] EXCEPT !.messages = pushed]
       ELSE coll[i]]

\* A faulty save, for the sensitivity of SessionFieldsFrozen: the session is
\* closed when messages are saved.
SaveSessionClosing(coll, sid, pushed) ==
  [i \in 1..Len(coll) |->
     IF coll[i].sessionId = sid
       THEN [coll[i] EXCEPT !.messages = @ \o pushed, !.status = "closed"]
       ELSE coll[i]]

\* A faulty save, for the sensitivity of StoredInWriteOrder: the pushed
\* messages are put before the stored ones.
SaveSessionInFront(coll, sid, pushed) ==
  [i \in 1..Len(coll) |->
     IF coll[i].sessionId = sid
       THEN [coll[i] EXCEPT !.messages = pushed \o @]
       ELSE coll[i]]

SaveSession(coll, sid, pushed) ==
  [i \in 1..Len(coll) |->
     IF coll[i].sessionId = sid
       THEN [coll[i] EXCEPT !.messages = StoreAppend(@, pushed)]
       ELSE coll[i]]

\* ------------------------------------------------------------ the provider
LLM(ok, content, err) == [ok |-> ok, content |-> content, err |-> err]
FencedFull == <<FenceJson, WS, "{full}", WS, Fence>>
AnalysisOutcomes ==
  {LLM(FALSE, Undefined, "rate limit")} \cup
  {LLM(TRUE, c, "") :
     c \in {Undefined, <<>>, <<"oops">>, <<"{full}">>, FencedFull, <<"null">>}}
ReplyOutcomes ==
  {LLM(FALSE, Undefined, "quota exceeded"), LLM(FALSE, Undefined, "")} \cup
  {LLM(TRUE, c, "") : c \in {Undefined, <<WS>>, <<WS, "take a breath">>}}

\* What the provider did, whatever the handler makes of it.
OutcomeClass(out) ==
  IF ~out.ok THEN "throw"
  ELSE IF ContentText(out.content) = <<>> THEN "empty"
  ELSE IF JSONParse(ContentText(out.content)).ok THEN "json"
  ELSE IF JSONParse(StripFences(ContentText(out.content))).ok THEN "fenced"
  ELSE "unparsable"

\* extractOpenAIError(err).message
ExtractOpenAIError(out) == IF out.err = "" THEN "Unknown error" ELSE out.err
\* error?.message || "Unknown server error"
CaughtMessage(err) == IF err = "" THEN "Unknown server error" ELSE err

\* ---------------------------------------------------------------- responses
\* res.status(status).json(body); status 0: no response sent yet.
NoResp ==
  [status |-> 0, message |-> "", error |-> "", response |-> <<>>,
   hasAnalysis |-> FALSE, analysis |-> JNull, data |-> <<>>]
\* { message, error }
ErrorResp(status, message, error) ==
  [NoResp EXCEPT !.status = status, !.message = message, !.error = error]
\* res.json(data)
DataResp(status, message, data) ==
  [NoResp EXCEPT !.status = status, !.message = message, !.data = data]
\* A faulty response, for the sensitivity of ResponseMatchesStoredPair: the
\* default analysis is returned whatever was computed.
ReplyRespNeutral(reply, analysis) ==
  [NoResp EXCEPT !.status = 200, !.response = reply, !.hasAnalysis = TRUE,
                 !.analysis = DefaultAnalysis]

\* res.json({ response: aiResponse, analysis, ... })
ReplyResp(reply, analysis) ==
  [NoResp EXCEPT !.status = 200, !.response = reply, !.hasAnalysis = TRUE,
                 !.analysis = analysis]

AuthMessage(v) == IF v = "p3" THEN "Unauthorized" ELSE "Authentication required"

\* ----------------------------------------------------------------- requests
VARIABLES variant, sessions, clock, req, sent
vars == <<variant, sessions, clock, req, sent>>

\* One request: its inputs, the handler's position and locals, its response,
\* and counters of the side effects it has issued.
\* What a front-end route got from the backend: nothing yet, a failed fetch,
\* or a status with a body text.
NoUpstream == [called |-> FALSE, thrown |-> FALSE, status |-> 0, raw |-> ""]
Upstream(thrown, status, raw) ==
  [called |-> TRUE, thrown |-> thrown, status |-> status, raw |-> raw]

\* The memory of the background function: the emotional states and themes seen
\* and the last risk level.
Memory(states, themes, risk) ==
  [emotionalState |-> states, themes |-> themes, riskLevel |-> risk]
\* memory = { userProfile: { emotionalState: [], riskLevel: 0, ... }, ... }
DefaultMemory == Memory(<<>>, <<>>, 0)

IdleReq ==
  [op |-> "", caller |-> NoUser, sid |-> "", msg |-> Undefined, pc |-> "idle",
   upstream |-> NoUpstream, hasMemory |-> FALSE, memory |-> DefaultMemory,
   warnings |-> 0,
   doc |-> NoSession, window |-> <<>>, hists |-> {},
   analysis |-> DefaultAnalysis,
   pushed |-> <<>>, resp |-> NoResp, stage |-> "",
   reads |-> 0, writes |-> 0, events |-> 0, aCalls |-> 0, rCalls |-> 0,
   aOut |-> "", rOut |-> "", rErr |-> "", prompt |-> <<>>, repliedIn |-> ""]

\* The handler returns: its locals are gone, the response and the counts stay.
Finished(q, resp, stage) ==
  [q EXCEPT !.pc = "done", !.resp = resp, !.stage = stage, !.doc = NoSession,
            !.window = <<>>, !.hists = {}, !.analysis = DefaultAnalysis,
            !.pushed = <<>>]

Started(r, op, caller, sid, msg) ==
  [IdleReq EXCEPT !.op = op, !.caller = caller, !.sid = sid, !.msg = msg]

\* What is left of a request once its handler has returned: that it is over and,
\* for a sendMessage answered 200, the session it replied in.
Closed(q) ==
  [IdleReq EXCEPT !.pc = "done",
                  !.repliedIn = IF q.op = "send" /\ q.resp.status = 200
                                  THEN q.sid ELSE ""]

\* sent: the request that the last step answered, with its response (by = 0: the
\* last step answered none).
NoSent == [by |-> 0, req |-> IdleReq]

\* Request r moves to q; a q that is done is answered and closed.
Step(r, q) ==
  /\ req' = [req EXCEPT ![r] = IF q.pc = "done" THEN Closed(q) ELSE q]
  /\ sent' = IF q.pc = "done" THEN [by |-> r, req |-> q] ELSE NoSent

InFlight == {r \in Reqs : req[r].pc \notin {"idle", "done"}}

\* Requests are numbered in the order they arrive, and they overlap pairwise: a
\* request arrives while at most one other is in flight.
CanStart(r) ==
  /\ req[r].pc = "idle"
  /\ IF r = 1 THEN TRUE ELSE req[r - 1].pc # "idle"
  /\ Cardinality(InFlight) <= 1

SidParams == {"s1", "sx"} \cup {sessions[i].sessionId : i \in 1..Len(sessions)}
\* The body's message field. A request without an identity carries a well-formed
\* body, so that the identity check is the only one that can reject it.
MsgInputs(caller) ==
  IF caller = NoUser THEN {<<"hi">>} ELSE {Undefined, <<>>, <<WS>>, <<"hi">>}

\* One session of u1 holding n earlier pairs, and no request yet.
InitWith(n) ==
  /\ variant \in Variants
  /\ sessions = <<Session("s1", "u1", 1, History(n))>>
  /\ clock = HistPairs + 2
  /\ req = [r \in Reqs |-> IdleReq]
  /\ sent = NoSent

\* A fresh session.
Init == InitWith(0)
\* A session whose history is longer than the window once a pair is added.
InitHist == InitWith(HistPairs)
\* Two fresh sessions of u1, s1 created before s2.
InitTwo ==
  /\ variant \in Variants
  /\ sessions = <<Session("s1", "u1", 1, <<>>), Session("s2", "u1", 2, <<>>)>>
  /\ clock = HistPairs + 2
  /\ req = [r \in Reqs |-> IdleReq]
  /\ sent = NoSent

\* ------------------------------------------------------------- sendMessage
\* if (!message || !message.trim())   (part_003: if (!message))
MessageRejected(v, msg) ==
  IF v = "p3" THEN Falsy(msg) ELSE Falsy(msg) \/ Trim(msg) = <<>>

\* The handler up to its first await: the identity and the body checks.
SendReceive(r) ==
  /\ CanStart(r)
  /\ \E caller \in Callers, sid \in SidParams :
     \E msg \in MsgInputs(caller) :
       LET q == Started(r, "send", caller, sid, msg) IN
       Step(r,
         IF caller = NoUser
           THEN Finished(q, ErrorResp(401, AuthMessage(variant), ""), "auth")
         ELSE IF MessageRejected(variant, msg)
           THEN Finished(q, ErrorResp(400, "Message is required", ""), "validate")
         ELSE [q EXCEPT !.pc = "find"])
  /\ UNCHANGED <<variant, sessions, clock>>

\* A faulty lookup, for the sensitivity of ForeignSendRejected: the owner is
\* not part of the filter and is not compared afterwards.
LookupAnyOwner(v, coll, sid, uid) ==
  LET s == FindOneById(coll, sid) IN
  IF s = NoSession
    THEN [resp |-> ErrorResp(404, "Session not found", ""), doc |-> NoSession]
    ELSE [resp |-> NoResp, doc |-> s]

\* The session lookup of sendMessage and getChatHistory: the response that ends
\* the request (status 0: none) and the document the handler goes on with.
Lookup(v, coll, sid, uid) ==
  IF v = "p3"
    THEN LET s == FindOneById(coll, sid) IN
         IF s = NoSession
           THEN [resp |-> ErrorResp(404, "Session not found", ""), doc |-> NoSession]
         ELSE IF s.userId # uid
           THEN [resp |-> ErrorResp(403, "Unauthorized", ""), doc |-> NoSession]
         ELSE [resp |-> NoResp, doc |-> s]
    ELSE LET s == FindOneOwned(coll, sid, uid) IN
         IF s = NoSession
           THEN [resp |-> ErrorResp(404, "Session not found", ""), doc |-> NoSession]
           ELSE [resp |-> NoResp, doc |-> s]

\* await ChatSession.findOne(...): the read returns, or throws into the outer catch.
SendFind(r) ==
  /\ req[r].pc = "find"
  /\ \E up \in BOOLEAN :
       LET q == [req[r] EXCEPT !.reads = @ + 1]
           l == Lookup(variant, sessions, q.sid, q.caller) IN
       Step(r,
         IF ~up
           THEN Finished(q, ErrorResp(500, "Error processing message",
                                      CaughtMessage("store unavailable")), "find")
         ELSE IF l.resp.status # 0 THEN Finished(q, l.resp, "lookup")
         ELSE [q EXCEPT !.pc = "emit", !.doc = l.doc])
  /\ UNCHANGED <<variant, sessions, clock>>

\* slice(-n)
LastN(s, n) == IF Len(s) <= n THEN s ELSE SubSeq(s, Len(s) - n + 1, Len(s))
\* safeRole
SafeRole(role) == IF role = "assistant" THEN "assistant" ELSE "user"
HasStringContent(m) == m.content # Undefined
ToContext(msgs) ==
  [i \in 1..Len(msgs) |->
     [role |-> SafeRole(msgs[i].role), content |-> msgs[i].content]]
\* session.messages.slice(-12).filter(...).map(...): the history handed to both
\* LLM calls (part_004: no filter). part_003 hands the provider no history.
LastMessages(v, msgs) ==
  IF v = "p3" THEN <<>>
  ELSE IF v = "p4" THEN ToContext(LastN(msgs, Window))
  ELSE ToContext(SelectSeq(LastN(msgs, Window), HasStringContent))

\* await inngest.send(event), caught and logged (part_003: not caught), then the
\* history window.
\* A faulty emission, for the sensitivity of EmitExactlyOnce: a send that
\* throws is attempted once more.
AfterEmitRetried(v, q0, delivered) ==
  LET q == [q0 EXCEPT !.events = IF delivered THEN @ + 1 ELSE @ + 2] IN
  [q EXCEPT !.pc = "analysis", !.window = LastMessages(v, q.doc.messages)]

AfterEmit(v, q0, delivered) ==
  LET q == [q0 EXCEPT !.events = @ + 1] IN
  IF ~delivered /\ v = "p3"
    THEN Finished(q, ErrorResp(500, "Error processing message",
                               CaughtMessage("inngest down")), "emit")
    ELSE [q EXCEPT !.pc = "analysis",
                   !.window = LastMessages(v, q.doc.messages)]

SendEmit(r) ==
  /\ req[r].pc = "emit"
  /\ \E delivered \in BOOLEAN : Step(r, AfterEmit(variant, req[r], delivered))
  /\ UNCHANGED <<variant, sessions, clock>>

\* One analysis call and its decode: chat.ts parses the first call's text as it
\* is and strips the fence markers only in the second call; part_003 and
\* part_004 make one call and strip.
AnalysisParsed(v, call, out) ==
  IF ~out.ok THEN [ok |-> FALSE, val |-> JNull]
  ELSE IF v = "chat" /\ call = 1 THEN JSONParse(ContentText(out.content))
  ELSE JSONParse(StripFences(ContentText(out.content)))

\* The first (in part_003 and part_004 the only) analysis call.
SendAnalysis(r) ==
  /\ req[r].pc = "analysis"
  /\ \E out \in AnalysisOutcomes :
       LET q == [req[r] EXCEPT !.aCalls = @ + 1, !.aOut = OutcomeClass(out),
                               !.hists = @ \cup {req[r].window}]
           p == AnalysisParsed(variant, 1, out) IN
       Step(r,
         IF variant = "p3" /\ ~out.ok
           THEN Finished(q, ErrorResp(500, "Error processing message",
                                      CaughtMessage(out.err)), "analysis")
         ELSE IF p.ok THEN [q EXCEPT !.pc = "reply", !.analysis = p.val]
         ELSE IF variant = "chat" THEN [q EXCEPT !.pc = "analysis2"]
         ELSE [q EXCEPT !.pc = "reply"])
  /\ UNCHANGED <<variant, sessions, clock>>

\* chat.ts: the inner catch calls the provider again, without response_format.
SendAnalysisFallback(r) ==
  /\ req[r].pc = "analysis2"
  /\ \E out \in AnalysisOutcomes :
       LET q == [req[r] EXCEPT !.aCalls = @ + 1, !.aOut = OutcomeClass(out),
                               !.hists = @ \cup {req[r].window}]
           p == AnalysisParsed(variant, 2, out) IN
       Step(r,
         IF p.ok THEN [q EXCEPT !.pc = "reply", !.analysis = p.val]
         ELSE [q EXCEPT !.pc = "reply"])
  /\ UNCHANGED <<variant, sessions, clock>>

DefaultReply(v) ==
  IF v = "p3" THEN <<"I'm here to support you.">>
  ELSE <<"I'm here with you. Can you tell me more about what you're feeling?">>
\* A faulty reply text, for the sensitivity of ReplyNeverEmpty: the content is
\* taken as the provider returned it.
AiResponseRaw(v, out) ==
  IF out.content = Undefined THEN DefaultReply(v) ELSE out.content

\* choices[0]?.message?.content?.trim() || aiResponse
AiResponse(v, out) ==
  IF ContentText(out.content) = <<>> THEN DefaultReply(v)
  ELSE ContentText(out.content)

\* What the reply call did: it threw, it returned no text (absent, empty or
\* whitespace only), or it returned a text.
ReplyClass(out) ==
  IF ~out.ok THEN "throw"
  ELSE IF out.content = Undefined \/ \A k \in 1..Len(out.content) : out.content[k] = WS
    THEN "empty"
  ELSE "text"

\* A faulty push, for the sensitivity of PairsOnly: the assistant message is
\* pushed before the user message.
PushedMessagesReversed(msg, reply, analysis, now, r) ==
  <<Message("assistant", reply, now, Meta(analysis), r),
    Message("user", msg, now, NoMeta, r)>>

\* A faulty push, for the sensitivity of StrictPairing: the assistant message is
\* pushed twice.
PushedMessagesTwice(msg, reply, analysis, now, r) ==
  <<Message("user", msg, now, NoMeta, r),
    Message("assistant", reply, now, Meta(analysis), r),
    Message("assistant", reply, now, Meta(analysis), r)>>

\* session.messages.push({ role: "user", ... }, { role: "assistant", ... })
PushedMessages(msg, reply, analysis, now, r) ==
  <<Message("user", msg, now, NoMeta, r),
    Message("assistant", reply, now, Meta(analysis), r)>>

\* part_003 reads analysis.emotionalState while building the pushed messages.
PushThrows(v, analysis) == v = "p3" /\ analysis = JNull

\* JSON.stringify(analysis)
Stringify(a) ==
  IF a = JNull THEN "null"
  ELSE IF a = JArr THEN "[]"
  ELSE IF a.t = "num" THEN ToString(a.v)
  ELSE IF a = FullAnalysis THEN "{full}"
  ELSE IF a = PartialAnalysis THEN "{partial}"
  ELSE "{default}"
\* responsePrompt: the user's message and the analysis, as text
ResponsePrompt(msg, analysis) ==
  <<"User message:">> \o msg \o <<"Analysis:", Stringify(analysis)>>

\* A faulty reply catch, for the sensitivity of ReplyFailureResponse: the error
\* response also carries the analysis.
ReplyFailedWithAnalysis(q, v, out) ==
  Finished(q, [ErrorResp(500, "Error processing message", ExtractOpenAIError(out))
                 EXCEPT !.hasAnalysis = TRUE, !.analysis = q.analysis], "reply")

\* The reply call failed: the handler answers 500 and returns.
ReplyFailed(q, v, out) ==
  Finished(q, ErrorResp(500, "Error processing message",
                        IF v = "p3" THEN CaughtMessage(out.err)
                        ELSE ExtractOpenAIError(out)), "reply")

\* A faulty reply step, for the sensitivity of ReplyFailureStoresNothing: the
\* user message is saved before the reply call is known to have succeeded.
SendReplyUserFirst(r) ==
  /\ req[r].pc = "reply"
  /\ \E out \in ReplyOutcomes :
       LET q == [req[r] EXCEPT !.rCalls = @ + 1] IN
       IF ~out.ok
         THEN /\ Step(r, ReplyFailed(q, variant, out))
              /\ sessions' = SaveSession(sessions, q.doc.sessionId,
                                         <<Message("user", q.msg, clock, NoMeta, r)>>)
              /\ UNCHANGED clock
         ELSE /\ Step(r,
                   [q EXCEPT !.pc = "save",
                             !.pushed = PushedMessages(q.msg, AiResponse(variant, out),
                                                       q.analysis, clock, r)])
              /\ clock' = clock + 1
              /\ UNCHANGED sessions
  /\ UNCHANGED variant

\* A faulty reply step, for the sensitivity of ReplyAfterAnalysis: the prompt
\* is built from the default analysis, not from the outcome of the analysis
\* stage.
SendReplyStalePrompt(r) ==
  /\ req[r].pc = "reply"
  /\ \E out \in ReplyOutcomes :
       LET q == [req[r] EXCEPT !.rCalls = @ + 1, !.rErr = out.err,
                               !.prompt = ResponsePrompt(req[r].msg,
                                                         DefaultAnalysis)] IN
       IF ~out.ok
         THEN /\ Step(r, ReplyFailed(q, variant, out))
              /\ UNCHANGED clock
       ELSE IF PushThrows(variant, q.analysis)
         THEN /\ Step(r,
                   Finished(q, ErrorResp(500, "Error processing message",
                                         CaughtMessage("analysis is null")), "push"))
              /\ UNCHANGED clock
       ELSE /\ Step(r,
                 [q EXCEPT !.pc = "save",
                           !.pushed = PushedMessages(q.msg, AiResponse(variant, out),
                                                     q.analysis, clock, r)])
            /\ clock' = clock + 1
  /\ UNCHANGED <<variant, sessions>>

\* A faulty reply step, for the sensitivity of WriteComesLast: the user message
\* is written to the store as soon as the reply is there, before save().
SendReplyEarlyWrite(r) ==
  /\ req[r].pc = "reply"
  /\ \E out \in ReplyOutcomes :
       LET q == [req[r] EXCEPT !.rCalls = @ + 1, !.rErr = out.err] IN
       IF ~out.ok
         THEN /\ Step(r, ReplyFailed(q, variant, out))
              /\ UNCHANGED <<clock, sessions>>
         ELSE /\ Step(r,
                   [q EXCEPT !.pc = "save",
                             !.pushed = PushedMessages(q.msg, AiResponse(variant, out),
                                                       q.analysis, clock, r)])
              /\ sessions' = SaveSession(sessions, q.doc.sessionId,
                                         <<Message("user", q.msg, clock, NoMeta, r)>>)
              /\ clock' = clock + 1
  /\ UNCHANGED variant

\* The reply call; on success the pair is pushed on the loaded document with
\* one timestamp and save() is issued.
SendReply(r) ==
  /\ req[r].pc = "reply"
  /\ \E out \in ReplyOutcomes :
       LET q == [req[r] EXCEPT !.rCalls = @ + 1, !.rErr = out.err,
                               !.rOut = ReplyClass(out),
                               !.hists = @ \cup {req[r].window},
                               !.prompt = ResponsePrompt(req[r].msg,
                                                         req[r].analysis)] IN
       IF ~out.ok
         THEN /\ Step(r, ReplyFailed(q, variant, out))
              /\ UNCHANGED clock
       ELSE IF PushThrows(variant, q.analysis)
         THEN /\ Step(r,
                   Finished(q, ErrorResp(500, "Error processing message",
                                         CaughtMessage("analysis is null")), "push"))
              /\ UNCHANGED clock
       ELSE /\ Step(r,
                 [q EXCEPT !.pc = "save",
                           !.pushed = PushedMessages(q.msg, AiResponse(variant, out),
                                                     q.analysis, clock, r)])
            /\ clock' = clock + 1
  /\ UNCHANGED <<variant, sessions>>

\* A save() that throws has written nothing.
FailedSave(coll, sid, pushed) == coll

\* save() of a new document: the store adds it behind the stored sessions.
StoreInsert(coll, doc) == Append(coll, doc)
\* A save() of a new document that throws has added nothing.
FailedInsert(coll, doc) == coll

\* A faulty store write, for the sensitivity of FailedWriteStoresNothing: a
\* save() that throws has written the first of the pushed messages.
SendSaveHalf(r) ==
  /\ req[r].pc = "save"
  /\ \E saved \in BOOLEAN :
       LET q == [req[r] EXCEPT !.writes = @ + 1] IN
       IF saved
         THEN /\ sessions' = SaveSession(sessions, q.doc.sessionId, q.pushed)
              /\ Step(r,
                   Finished(q, ReplyResp(q.pushed[2].content, q.analysis), "ok"))
         ELSE /\ Step(r,
                   Finished(q, ErrorResp(500, "Error processing message",
                                         CaughtMessage("store unavailable")), "save"))
              /\ sessions' = SaveSession(sessions, q.doc.sessionId, <<q.pushed[1]>>)
  /\ UNCHANGED <<variant, clock>>

\* A faulty handler, for the sensitivity of ExactlyOneResponse: a save() that
\* throws is not caught and the request is left without a response.
SendSaveUncaught(r) ==
  /\ req[r].pc = "save"
  /\ \E saved \in BOOLEAN :
       LET q == [req[r] EXCEPT !.writes = @ + 1] IN
       IF saved
         THEN /\ sessions' = SaveSession(sessions, q.doc.sessionId, q.pushed)
              /\ Step(r,
                   Finished(q, ReplyResp(q.pushed[2].content, q.analysis), "ok"))
         ELSE /\ Step(r, [q EXCEPT !.pc = "thrown"])
              /\ sessions' = FailedSave(sessions, q.doc.sessionId, q.pushed)
  /\ UNCHANGED <<variant, clock>>

\* await session.save() returns and the handler answers with the reply and the
\* analysis, or save() throws into the outer catch.
SendSave(r) ==
  /\ req[r].pc = "save"
  /\ \E saved \in BOOLEAN :
       LET q == [req[r] EXCEPT !.writes = @ + 1] IN
       IF saved
         THEN /\ sessions' = SaveSession(sessions, q.doc.sessionId, q.pushed)
              /\ Step(r,
                   Finished(q, ReplyResp(q.pushed[2].content, q.analysis), "ok"))
         ELSE /\ Step(r,
                   Finished(q, ErrorResp(500, "Error processing message",
                                         CaughtMessage("store unavailable")), "save"))
              /\ sessions' = FailedSave(sessions, q.doc.sessionId, q.pushed)
  /\ UNCHANGED <<variant, clock>>

\* ------------------------------------------------------------ the read side
\* The values toISO is given: a Date (a stored timestamp, an instant in
\* milliseconds) or a text.
DateValue(ms) == [k |-> "date", ms |-> ms, s |-> <<>>]
TextValue(s) == [k |-> "text", ms |-> 0, s |-> s]
\* The instants the clock can show.
Instants == 0..(HistPairs + 2 + 2 * MaxReq)
\* new Date(NaN).getTime()
NaN == 0 - 1

\* A faulty conversion, for the sensitivity of ToISORoundTrip: the text keeps
\* every other instant only.
ToISOStringCoarse(ms) == <<"iso", ToString((ms \div 2) * 2)>>

\* Date.prototype.toISOString(): the ISO-8601 text of an instant, to the
\* millisecond
ToISOString(ms) == <<"iso", ToString(ms)>>

\* new Date(text).getTime(): the instant an ISO-8601 text names, NaN for any
\* other text
DateParse(s) ==
  IF Len(s) = 2 /\ s[1] = "iso" /\ \E t \in Instants : ToString(t) = s[2]
    THEN CHOOSE t \in Instants : ToString(t) = s[2]
    ELSE NaN

\* new Date(v).getTime()
NewDate(v) == IF v.k = "date" THEN v.ms ELSE DateParse(v.s)

\* v ? ... : ...   (a Date object is truthy, an empty text is not)
Truthy(v) == v.k = "date" \/ (v.k = "text" /\ v.s # <<>>)

\* toISO(v): the text of v's instant, of the current instant when v is absent
\* or names none
ToISO(v) ==
  LET d == IF Truthy(v) THEN NewDate(v) ELSE clock IN
  IF d = NaN THEN ToISOString(clock) ELSE ToISOString(d)

\* getChatHistory's normalized messages
Normalized(msgs) ==
  [i \in 1..Len(msgs) |->
     [role |-> SafeRole(msgs[i].role), content |-> msgs[i].content,
      timestamp |-> ToISO(DateValue(msgs[i].timestamp)),
      metadata |-> msgs[i].metadata]]
\* part_003: res.json(session.messages), which writes a Date as its
\* toISOString()
Serialized(msgs) ==
  [i \in 1..Len(msgs) |->
     [role |-> msgs[i].role, content |-> msgs[i].content,
      timestamp |-> ToISOString(msgs[i].timestamp),
      metadata |-> msgs[i].metadata]]

\* The front end's GET history route on a backend answer that is an array:
\* data.map((m) => ({ role: m.role, content: m.content, timestamp: m.timestamp }))
HistoryRouteBody(data) ==
  [i \in 1..Len(data) |->
     [role |-> data[i].role, content |-> data[i].content,
      timestamp |-> data[i].timestamp, metadata |-> NoMeta]]

\* getChatHistory once the store has answered the lookup.
HistoryResp(v, coll, sid, caller) ==
  LET l == Lookup(v, coll, sid, caller) IN
  IF l.resp.status # 0 THEN l.resp
  ELSE DataResp(200, "", IF v = "p3" THEN Serialized(l.doc.messages)
                         ELSE Normalized(l.doc.messages))

GetHistory(r) ==
  /\ CanStart(r)
  /\ \E caller \in Callers, sid \in SidParams, up \in BOOLEAN :
       LET q == Started(r, "history", caller, sid, Undefined)
           q1 == [q EXCEPT !.reads = 1]
           resp == HistoryResp(variant, sessions, sid, caller) IN
       Step(r,
         IF caller = NoUser
           THEN Finished(q, ErrorResp(401, AuthMessage(variant), ""), "auth")
         ELSE IF ~up
           THEN Finished(q1, ErrorResp(500, "Error fetching chat history",
                                       IF variant = "p3" THEN ""
                                       ELSE CaughtMessage("store unavailable")),
                         "find")
         ELSE Finished(q1, resp, IF resp.status = 200 THEN "ok" ELSE "lookup"))
  /\ UNCHANGED <<variant, sessions, clock>>

\* getChatSession once the store has answered: part_003 looks the session up by
\* its identifier alone, part_004 by identifier and owner.
GetSessionResp(v, coll, sid, caller) ==
  LET s == IF v = "p3" THEN FindOneById(coll, sid)
           ELSE FindOneOwned(coll, sid, caller) IN
  IF s # NoSession THEN DataResp(200, "", <<s>>)
  ELSE IF v = "p3" THEN ErrorResp(404, "", "Chat session not found")
  ELSE ErrorResp(404, "Session not found", "")

\* getChatSession: chat.ts exports none; part_003 checks neither the identity
\* nor the owner; part_004 checks both.
GetSession(r) ==
  /\ CanStart(r)
  /\ variant \in {"p3", "p4"}
  /\ \E caller \in Callers, sid \in SidParams, up \in BOOLEAN :
       LET q == Started(r, "get", caller, sid, Undefined)
           q1 == [q EXCEPT !.reads = 1]
           resp == GetSessionResp(variant, sessions, sid, caller) IN
       Step(r,
         IF variant = "p4" /\ caller = NoUser
           THEN Finished(q, ErrorResp(401, AuthMessage(variant), ""), "auth")
         ELSE IF ~up
           THEN Finished(q1, IF variant = "p3"
                               THEN ErrorResp(500, "", "Failed to get chat session")
                               ELSE ErrorResp(500, "Failed to fetch chat session",
                                              CaughtMessage("store unavailable")),
                         "find")
         ELSE Finished(q1, resp, IF resp.status = 200 THEN "ok" ELSE "lookup"))
  /\ UNCHANGED <<variant, sessions, clock>>

\* .sort({ startTime: -1 })
RECURSIVE InsertByStart(_, _)
InsertByStart(s, sorted) ==
  IF sorted = <<>> \/ s.startTime >= Head(sorted).startTime
    THEN <<s>> \o sorted
    ELSE <<Head(sorted)>> \o InsertByStart(s, Tail(sorted))
RECURSIVE SortByStartDesc(_)
SortByStartDesc(coll) ==
  IF coll = <<>> THEN <<>>
  ELSE InsertByStart(Head(coll), SortByStartDesc(Tail(coll)))

\* listChatSessions' formatted entries
Formatted(coll) ==
  [i \in 1..Len(coll) |->
     [sessionId |-> coll[i].sessionId, startTime |-> ToISO(DateValue(coll[i].startTime)),
      status |-> coll[i].status,
      lastMessage |-> IF coll[i].messages = <<>> THEN <<>>
                      ELSE coll[i].messages[Len(coll[i].messages)].content,
      messagesCount |-> Len(coll[i].messages)]]

\* listChatSessions (chat.ts and part_004; part_003 has none)
ListSessions(r) ==
  /\ CanStart(r)
  /\ variant \in {"chat", "p4"}
  /\ \E caller \in Callers, up \in BOOLEAN :
       LET q == Started(r, "list", caller, "", Undefined)
           q1 == [q EXCEPT !.reads = 1] IN
       Step(r,
         IF caller = NoUser
           THEN Finished(q, ErrorResp(401, AuthMessage(variant), ""), "auth")
         ELSE IF ~up
           THEN Finished(q1, ErrorResp(500, "Failed to fetch chat sessions",
                                       CaughtMessage("store unavailable")), "find")
         ELSE Finished(q1, DataResp(200, "",
                         Formatted(SortByStartDesc(OwnedBy(sessions, caller)))),
                       "ok"))
  /\ UNCHANGED <<variant, sessions, clock>>

\* createChatSession; part_004 does not look the user up.
CreateSession(r) ==
  /\ CanStart(r)
  /\ \E caller \in Callers, up \in BOOLEAN :
       LET q == Started(r, "create", caller, "", Undefined)
           lookup == variant # "p4"
           q1 == [q EXCEPT !.reads = IF lookup THEN 1 ELSE 0]
           id == NewSessionId(sessions) IN
       IF caller = NoUser
         THEN /\ Step(r,
                   Finished(q, ErrorResp(401, AuthMessage(variant), ""), "auth"))
              /\ UNCHANGED <<sessions, clock>>
       ELSE IF lookup /\ caller \notin UserRecords
         THEN /\ Step(r,
                   Finished(q1, ErrorResp(404, "User not found", ""), "lookup"))
              /\ UNCHANGED <<sessions, clock>>
       ELSE IF ~up
         THEN /\ Step(r,
                   Finished([q1 EXCEPT !.writes = 1],
                            ErrorResp(500, "Error creating chat session",
                                      CaughtMessage("store unavailable")), "save"))
              /\ sessions' = FailedInsert(sessions, Session(id, caller, clock, <<>>))
              /\ UNCHANGED clock
       ELSE /\ sessions' = StoreInsert(sessions, Session(id, caller, clock, <<>>))
            /\ clock' = clock + 1
            /\ Step(r,
                 Finished([q1 EXCEPT !.writes = 1],
                          DataResp(201, "Chat session created successfully",
                                   <<[sessionId |-> id]>>), "ok"))
  /\ UNCHANGED variant

\* ---------------------------------------------------- the front-end routes
\* The route handlers of the front end that forward a request to the backend:
\* POST .../messages (two copies of the file), GET and POST .../[sessionId],
\* POST /chat/sessions and GET .../history.
ProxyRoutes ==
  {"route.messages", "route.messages2", "route.session.get",
   "route.session.post", "route.sessions", "route.history"}
\* The routes that read a message from the request body.
NeedsMessage(route) == route \in {"route.messages", "route.messages2", "route.session.post"}
\* try { data = raw ? JSON.parse(raw) : {} } catch { data = { error: raw } };
\* the first copy of POST .../messages and GET .../history parse without the try.
ParseGuarded(route) == route \notin {"route.messages", "route.history"}
\* The error text of a route's catch and of a backend error without a text.
FailText(route) ==
  CASE NeedsMessage(route) -> "Failed to send message"
    [] route = "route.session.get" -> "Failed to fetch history"
    [] route = "route.sessions" -> "Failed to create chat session"
    [] OTHER -> "Failed to get chat history"

\* The body texts a backend answers with: nothing, JSON objects with and
\* without a message or an error, the JSON null, and text that is not JSON.
RawBodies ==
  {"", "{\"message\":\"Session not found\"}", "{\"error\":\"Unauthorized\"}",
   "{}", "null", "<html>Bad Gateway</html>"}
BackendStatuses == {200, 201, 400, 401, 404, 500, 502}
\* response.ok
ResponseOk(status) == status >= 200 /\ status <= 299

\* JSON.parse(raw) of a body text: the value's message and error fields
NoFields == [message |-> "", error |-> ""]
BodyParse(raw) ==
  CASE raw = "{\"message\":\"Session not found\"}" ->
         [ok |-> TRUE, val |-> [NoFields EXCEPT !.message = "Session not found"]]
    [] raw = "{\"error\":\"Unauthorized\"}" ->
         [ok |-> TRUE, val |-> [NoFields EXCEPT !.error = "Unauthorized"]]
    [] raw \in {"{}", "null"} -> [ok |-> TRUE, val |-> NoFields]
    [] OTHER -> [ok |-> FALSE, val |-> NoFields]

\* data, as the route decodes the body: thrown when the parse throws unguarded
RouteData(route, raw) ==
  IF raw = "" THEN [thrown |-> FALSE, val |-> NoFields]
  ELSE IF BodyParse(raw).ok THEN [thrown |-> FALSE, val |-> BodyParse(raw).val]
  ELSE IF ParseGuarded(route)
    THEN [thrown |-> FALSE, val |-> [NoFields EXCEPT !.error = raw]]
  ELSE [thrown |-> TRUE, val |-> NoFields]

\* data?.message || data?.error || the route's text
RouteError(route, val) ==
  IF val.message # "" THEN val.message
  ELSE IF val.error # "" THEN val.error
  ELSE FailText(route)

\* The response of a route handler, given whether the request carries an
\* authorization header and a message, and what the backend answered.
RouteResp(route, auth, hasMessage, up) ==
  IF ~auth THEN ErrorResp(401, "", "Authorization header is required")
  ELSE IF NeedsMessage(route) /\ ~hasMessage
    THEN ErrorResp(400, "", "Message is required")
  ELSE IF up.thrown \/ RouteData(route, up.raw).thrown
    THEN ErrorResp(500, "", FailText(route))
  ELSE IF ~ResponseOk(up.status)
    THEN ErrorResp(up.status, "", RouteError(route, RouteData(route, up.raw).val))
  ELSE DataResp(200, "", <<>>)

\* One request to a front-end route, from its arrival to its response; the
\* backend is called only when the request has its header and its message.
Route(r) ==
  /\ CanStart(r)
  /\ \E route \in ProxyRoutes, auth \in BOOLEAN, hasMessage \in BOOLEAN,
        thrown \in BOOLEAN, status \in BackendStatuses, raw \in RawBodies :
       LET forwarded == auth /\ (NeedsMessage(route) => hasMessage)
           up == IF forwarded THEN Upstream(thrown, IF thrown THEN 0 ELSE status,
                                            IF thrown THEN "" ELSE raw)
                 ELSE NoUpstream
           q == [Started(r, route, IF auth THEN "u1" ELSE NoUser, "", Undefined)
                   EXCEPT !.upstream = up] IN
       Step(r, Finished(q, RouteResp(route, auth, hasMessage, up), "route"))
  /\ UNCHANGED <<variant, sessions, clock>>

\* ------------------------------------------------- the background function
\* processChatMessage runs on the event therapy/session.message in four steps:
\* analyze-message, update-memory, trigger-risk-alert and generate-response.
\* The analysis returned by the inner catch of analyze-message and by the
\* outer catch.
BackgroundDefaultAnalysis ==
  JObj([emotionalState |-> "neutral", themes |-> <<>>, riskLevel |-> 0,
        recommendedApproach |-> "supportive", progressIndicators |-> <<>>])
\* A memory that an event carries.
EventMemory == Memory(<<"sad">>, <<"family">>, 2)
\* What the provider answers the analysis call of the function with.
BackgroundOutcomes == AnalysisOutcomes \cup {LLM(TRUE, <<"{mild}">>, "")}

\* analyze-message: the completion's text, stripped of fence markers and
\* parsed; the default analysis when the call or the parse throws.
AnalyzeMessage(out) ==
  IF ~out.ok THEN BackgroundDefaultAnalysis
  ELSE LET p == JSONParse(StripFences(ContentText(out.content))) IN
       IF p.ok THEN p.val ELSE BackgroundDefaultAnalysis

\* update-memory reads analysis.emotionalState: a TypeError on null.
UpdateMemoryThrows(a) == a = JNull
\* update-memory
UpdateMemory(mem, a) ==
  Memory(IF HasField(a, "emotionalState")
           THEN Append(mem.emotionalState, a.v.emotionalState)
           ELSE mem.emotionalState,
         IF HasField(a, "themes") THEN mem.themes \o a.v.themes ELSE mem.themes,
         IF HasField(a, "riskLevel") THEN a.v.riskLevel ELSE 0)

\* if (analysis.riskLevel > 4)
RiskAlertDue(a) == HasField(a, "riskLevel") /\ a.v.riskLevel > 4

\* generate-response
GenerateResponse(out) ==
  IF ~out.ok THEN <<"I'm here to support you. Could you tell me more?">>
  ELSE IF ContentText(out.content) = <<>> THEN <<"I'm here to support you.">>
  ELSE ContentText(out.content)

\* return { response, analysis, updatedMemory }
BackgroundResult(response, analysis, memory) ==
  [NoResp EXCEPT !.response = response, !.hasAnalysis = TRUE,
                 !.analysis = analysis, !.data = memory]
\* The outer catch: a fixed reply, the default analysis and event.data.memory,
\* which is absent when the event carried none.
BackgroundFallback(q) ==
  BackgroundResult(
    <<"I'm here to support you. Could you tell me more about what's on your mind?">>,
    BackgroundDefaultAnalysis,
    IF q.hasMemory THEN <<EventMemory>> ELSE <<>>)

\* The event arrives and analyze-message runs.
BackgroundAnalyze(r) ==
  /\ CanStart(r)
  /\ \E hasMemory \in BOOLEAN, out \in BackgroundOutcomes :
       Step(r, [Started(r, "process", NoUser, "", <<"hi">>)
                  EXCEPT !.pc = "update-memory", !.hasMemory = hasMemory,
                         !.memory = IF hasMemory THEN EventMemory ELSE DefaultMemory,
                         !.aCalls = 1, !.aOut = OutcomeClass(out),
                         !.analysis = AnalyzeMessage(out)])
  /\ UNCHANGED <<variant, sessions, clock>>

\* update-memory runs, then the test of the risk level.
BackgroundUpdateMemory(r) ==
  /\ req[r].pc = "update-memory"
  /\ LET q == req[r] IN
     Step(r,
       IF UpdateMemoryThrows(q.analysis)
         THEN Finished(q, BackgroundFallback(q), "catch")
       ELSE [q EXCEPT !.memory = UpdateMemory(q.memory, q.analysis),
                      !.pc = IF RiskAlertDue(q.analysis)
                               THEN "trigger-risk-alert"
                               ELSE "generate-response"])
  /\ UNCHANGED <<variant, sessions, clock>>

\* A faulty alert, for the sensitivity of RiskAlertOnlyLogs: the alert raises
\* the risk level kept in the memory.
BackgroundRiskAlertEscalating(r) ==
  /\ req[r].pc = "trigger-risk-alert"
  /\ Step(r, [req[r] EXCEPT !.warnings = @ + 1, !.pc = "generate-response",
                            !.memory.riskLevel = 10])
  /\ UNCHANGED <<variant, sessions, clock>>

\* trigger-risk-alert: logger.warn("High risk detected", ...)
BackgroundRiskAlert(r) ==
  /\ req[r].pc = "trigger-risk-alert"
  /\ Step(r, [req[r] EXCEPT !.warnings = @ + 1, !.pc = "generate-response"])
  /\ UNCHANGED <<variant, sessions, clock>>

\* generate-response runs and the function returns.
BackgroundRespond(r) ==
  /\ req[r].pc = "generate-response"
  /\ \E out \in ReplyOutcomes :
       LET q == [req[r] EXCEPT !.rCalls = 1, !.rOut = ReplyClass(out)] IN
       Step(r, Finished(q, BackgroundResult(GenerateResponse(out), q.analysis,
                                            <<q.memory>>), "ok"))
  /\ UNCHANGED <<variant, sessions, clock>>

\* --------------------------------------------------------- the specification
Next ==
  \E r \in Reqs :
    \/ SendReceive(r)
    \/ SendFind(r)
    \/ SendEmit(r)
    \/ SendAnalysis(r)
    \/ SendAnalysisFallback(r)
    \/ SendReply(r)
    \/ SendSave(r)
    \/ GetHistory(r)
    \/ GetSession(r)
    \/ ListSessions(r)
    \/ CreateSession(r)

Spec == Init /\ [][Next]_vars
SpecHist == InitHist /\ [][Next]_vars
SpecTwo == InitTwo /\ [][Next]_vars
\* The front-end routes on their own, the backend being whatever answers them.
NextRoute == \E r \in Reqs : Route(r)
SpecRoute == Init /\ [][NextRoute]_vars
\* The background function on its own.
NextBackground ==
  \E r \in Reqs :
    \/ BackgroundAnalyze(r)
    \/ BackgroundUpdateMemory(r)
    \/ BackgroundRiskAlert(r)
    \/ BackgroundRespond(r)
SpecBackground == Init /\ [][NextBackground]_vars

\* The steps of sendMessage that wait for an external call: the store read, the
\* event emission, the provider calls and the store write.
Pipeline(r) ==
  \/ SendFind(r)
  \/ SendEmit(r)
  \/ SendAnalysis(r)
  \/ SendAnalysisFallback(r)
  \/ SendReply(r)
  \/ SendSave(r)
\* Every external call that a request waits for returns or throws.
SpecLive == Init /\ [][Next]_vars /\ \A r \in Reqs : WF_vars(Pipeline(r))

\* --------------------------------------------------------------- properties
\* The last step answered a request; Ans is that request as it was answered.
Answered == sent.by # 0
Ans == sent.req

IsNew(m) == m.by # 0
NewMessages(i) == SelectSeq(sessions[i].messages, IsNew)
NoMessageBy(r) ==
  \A i \in 1..Len(sessions) :
    \A j \in 1..Len(sessions[i].messages) : sessions[i].messages[j].by # r
RepliedIn(sid) == {r \in Reqs : req[r].repliedIn = sid}
\* The session sid exists and belongs to somebody other than the caller.
Foreign(sid, caller) ==
  /\ caller # NoUser
  /\ FindOneById(sessions, sid) # NoSession
  /\ FindOneById(sessions, sid).userId # caller
Blank(msg) == msg = Undefined \/ \A k \in 1..Len(msg) : msg[k] = WS
SideEffects(q) == q.writes + q.events + q.aCalls + q.rCalls

\* C1: strict pairing. In every reachable state (the store write and the
\* response of a request are one step, so no request is ever between the two),
\* the messages a session gained since the start number twice the sendMessage
\* requests on that session that were answered with success, and they come as
\* (user, assistant) pairs of one request each, however the requests on the
\* session interleaved.
StrictPairing ==
  \A i \in 1..Len(sessions) :
    LET new == NewMessages(i) IN
    /\ Len(new) = 2 * Cardinality(RepliedIn(sessions[i].sessionId))
    /\ \A k \in 1..Len(new) :
         /\ new[k].role = IF k % 2 = 1 THEN "user" ELSE "assistant"
         /\ k % 2 = 1 => (k < Len(new) /\ new[k + 1].by = new[k].by)
         /\ req[new[k].by].repliedIn = sessions[i].sessionId

\* Two requests on session s1 overlapped: the one that arrived second saved its
\* pair first, and both pairs are stored.
StrictPairingInterleaved ==
  /\ req[1].repliedIn = "s1" /\ req[2].repliedIn = "s1"
  /\ Len(NewMessages(1)) = 4
  /\ NewMessages(1)[1].by = 2
  /\ NewMessages(1)[3].by = 1

\* C2: a sendMessage request whose reply call failed leaves no message of its
\* own in any session, neither at the step that answers it nor ever after: every
\* stored message was appended by a request that was answered with success.
ReplyFailureStoresNothing ==
  /\ (Answered /\ Ans.op = "send" /\ Ans.stage = "reply") =>
       (Ans.resp.status = 500 /\ Ans.writes = 0 /\ NoMessageBy(sent.by))
  /\ \A r \in Reqs :
       (req[r].pc = "done" /\ req[r].repliedIn = "") => NoMessageBy(r)

\* A reply call has just failed, after an analysis call, on a session that holds
\* the pair of an earlier request.
ReplyFailedAfterAnalysis ==
  /\ Answered /\ Ans.op = "send" /\ Ans.stage = "reply"
  /\ Ans.aCalls > 0 /\ Ans.rCalls = 1
  /\ Ans.sid = "s1" /\ Len(sessions[1].messages) = 2

AnalysisFields ==
  {"emotionalState", "themes", "riskLevel", "recommendedApproach",
   "progressIndicators"}
WellFormed(a) ==
  /\ a.t = "obj"
  /\ AnalysisFields \subseteq DOMAIN a.v
  /\ a.v.riskLevel \in Int

\* C3: whatever the provider returned to the analysis call, the analysis that
\* sendMessage returns, and the one it stores with the assistant message, is a
\* non-null record with the five fields and a numeric riskLevel.
AnalysisAlwaysWellFormed ==
  /\ (Answered /\ Ans.resp.hasAnalysis) => WellFormed(Ans.resp.analysis)
  /\ \A i \in 1..Len(sessions) :
       \A j \in 1..Len(sessions[i].messages) :
         LET m == sessions[i].messages[j] IN
         (m.by # 0 /\ m.role = "assistant") => WellFormed(m.metadata.analysis)

FailedAnalysis == {"throw", "empty", "unparsable"}

\* C4: when the analysis call (the last one the request made) threw, returned
\* the empty string or returned text that is not JSON, the request goes on to
\* the reply with the default analysis, stores the default analysis with the
\* assistant message and returns it.
DefaultOnAnalysisFailure ==
  /\ \A r \in Reqs :
       (req[r].pc \in {"reply", "save"} /\ req[r].aOut \in FailedAnalysis) =>
         /\ req[r].analysis = DefaultAnalysis
         /\ req[r].pc = "save" =>
              req[r].pushed[2].metadata.analysis = DefaultAnalysis
  /\ (Answered /\ Ans.op = "send" /\ Ans.aOut \in FailedAnalysis) =>
       /\ Ans.stage # "analysis"
       /\ Ans.resp.status = 200 => Ans.resp.analysis = DefaultAnalysis

\* An identifier that no stored session has.
AbsentId == "sx"
\* The response of the operation once the store has answered its lookup.
LookupResponse(op, sid, caller) ==
  CASE op = "send" -> Lookup(variant, sessions, sid, caller).resp
    [] op = "history" -> HistoryResp(variant, sessions, sid, caller)
    [] OTHER -> GetSessionResp(variant, sessions, sid, caller)

\* C5: sendMessage, getChatHistory and getChatSession answer a caller who names
\* an existing session of another user with the very response (status and body)
\* they give the same caller for an identifier that no session has.
NotOwnerSameAsAbsent ==
  (/\ Answered /\ Ans.op \in {"send", "history", "get"}
   /\ Ans.stage \notin {"auth", "validate", "find"}
   /\ Foreign(Ans.sid, Ans.caller)) =>
     Ans.resp = LookupResponse(Ans.op, AbsentId, Ans.caller)

\* C6: a response that carries a session record, its messages or a reply is
\* given only to the authenticated owner of that session.
OnlyOwnerIsAnswered ==
  /\ (Answered /\ Ans.op \in {"send", "history", "get"} /\ Ans.resp.status = 200) =>
       /\ Ans.caller # NoUser
       /\ FindOneById(sessions, Ans.sid).userId = Ans.caller
  /\ (Answered /\ Ans.op = "list" /\ Ans.resp.status = 200) =>
       /\ Ans.caller # NoUser
       /\ \A k \in 1..Len(Ans.resp.data) :
            FindOneById(sessions, Ans.resp.data[k].sessionId).userId = Ans.caller

\* C7: a sendMessage request of an authenticated caller whose message is
\* missing, empty or whitespace only is answered 400 at once: it never gets
\* past the body check, so it issues no read, LLM call, event or write.
BlankMessageRejected ==
  /\ \A r \in Reqs :
       (req[r].op = "send" /\ req[r].pc \notin {"idle", "done"}) =>
         ~Blank(req[r].msg)
  /\ (Answered /\ Ans.op = "send" /\ Ans.caller # NoUser /\ Blank(Ans.msg)) =>
       /\ Ans.resp.status = 400
       /\ Ans.reads = 0 /\ SideEffects(Ans) = 0
       /\ NoMessageBy(sent.by)

\* Request r as the step leaves it.
After(r) == IF sent'.by = r THEN sent'.req ELSE req'[r]
\* The step is one of a sendMessage request r that names a session of another
\* user.
ForeignSendStep(r) ==
  /\ req'[r] # req[r]
  /\ After(r).op = "send"
  /\ Foreign(After(r).sid, After(r).caller)

\* C8: no step of a sendMessage request that names a session of another user
\* changes the stored sessions, calls the LLM, emits an event or writes; the
\* request never gets past the session lookup and is never answered 200; when
\* its message passes the body check and the store answers the lookup, the
\* answer is 404 (part_003: 403).
ForeignSendRejected ==
  [][\A r \in Reqs :
       ForeignSendStep(r) =>
         /\ sessions' = sessions
         /\ SideEffects(After(r)) = 0
         /\ After(r).pc \in {"find", "done"}
         /\ After(r).pc = "done" =>
              /\ After(r).stage \in {"validate", "find", "lookup"}
              /\ After(r).resp.status \in {400, 403, 404, 500}
              /\ After(r).stage = "lookup" =>
                   After(r).resp.status \in {403, 404}]_vars

\* u2 sent a well-formed message to s1, which is u1's and holds a pair, and the
\* lookup has just answered.
ForeignSendAnswered ==
  /\ Answered /\ Ans.op = "send" /\ Ans.caller = "u2" /\ Ans.sid = "s1"
  /\ Ans.msg = <<"hi">> /\ Ans.stage = "lookup"
  /\ Ans.resp.status \in {403, 404}
  /\ Len(sessions[1].messages) = 2

\* C9: every operation answers a request without an identity 401, before any
\* store read or write, event or LLM call.
NoIdentityRejectedFirst ==
  /\ \A r \in Reqs : req[r].pc \notin {"idle", "done"} => req[r].caller # NoUser
  /\ (Answered /\ Ans.caller = NoUser) =>
       /\ Ans.resp.status = 401
       /\ Ans.reads = 0 /\ SideEffects(Ans) = 0

Min(a, b) == IF a <= b THEN a ELSE b
\* The last min(n, Window) of the n messages, in their order, as role and content.
LastStored(msgs) ==
  LET n == Len(msgs)
      k == Min(n, Window)
  IN [i \in 1..k |-> [role |-> msgs[n - k + i].role,
                      content |-> msgs[n - k + i].content]]

\* C10: the history that a sendMessage request hands to the LLM is the last
\* min(n, 12) of the n messages of the session it loaded, in stored order; an
\* empty session gives an empty history.
HistoryWindow ==
  \A r \in Reqs :
    req[r].pc \in {"analysis", "analysis2", "reply"} =>
      req[r].window = LastStored(req[r].doc.messages)

\* C11: the analysis stage never fails a sendMessage request: a request that
\* made an analysis call and is answered with an error ended at the reply call
\* or at the store write, whatever the analysis call returned.
AnalysisNeverFails ==
  (Answered /\ Ans.op = "send" /\ Ans.aCalls >= 1 /\ Ans.resp.status # 200) =>
    (Ans.rCalls = 1 /\ Ans.stage \in {"reply", "save"})

\* The generic text an error response carries when the provider's error has no
\* message.
GenericError == {"Unknown error", "Unknown server error"}

\* C12: a failed reply call is answered 500 with the provider's error message
\* when it has one and a generic message otherwise, and the response carries
\* neither a reply text nor an analysis, although the analysis stage has run.
ReplyFailureResponse ==
  (Answered /\ Ans.op = "send" /\ Ans.stage = "reply") =>
    /\ Ans.resp.status = 500
    /\ IF Ans.rErr # "" THEN Ans.resp.error = Ans.rErr
       ELSE Ans.resp.error \in GenericError
    /\ Ans.resp.response = <<>>
    /\ ~Ans.resp.hasAnalysis
    /\ Ans.resp.data = <<>>

\* A reply call has just failed with a provider message, after the analysis
\* stage parsed a full analysis.
ReplyFailedWithProviderMessage ==
  /\ Answered /\ Ans.op = "send" /\ Ans.stage = "reply"
  /\ Ans.rErr = "quota exceeded" /\ Ans.aOut \in {"json", "fenced"}
  /\ Ans.prompt = ResponsePrompt(<<"hi">>, FullAnalysis)

\* C13: a sendMessage request whose store write failed is answered 500 and has
\* no message in any session, neither of the pair nor one of the two; as the
\* request is over, none appears later.
FailedWriteStoresNothing ==
  /\ (Answered /\ Ans.op = "send" /\ Ans.stage = "save") =>
       /\ Ans.resp.status = 500 /\ Ans.writes = 1
       /\ Ans.resp.response = <<>>
       /\ NoMessageBy(sent.by)
  /\ \A r \in Reqs :
       \A i \in 1..Len(sessions) :
         LET mine == {j \in 1..Len(sessions[i].messages) :
                        sessions[i].messages[j].by = r} IN
         Cardinality(mine) \in {0, 2} /\ (mine # {} => req[r].repliedIn # "")

\* The store write of a request has just failed, after both LLM calls, on a
\* session that holds the pair of another request.
WriteFailedAfterReply ==
  /\ Answered /\ Ans.op = "send" /\ Ans.stage = "save"
  /\ Ans.aCalls >= 1 /\ Ans.rCalls = 1
  /\ Ans.sid = "s1" /\ Len(sessions[1].messages) = 2

\* C14: a sendMessage request has nothing in the store and has issued no write
\* until it is answered; it issues its one write only after the analysis stage
\* and the reply call are over, and the write is the step that answers it.
WriteComesLast ==
  /\ \A r \in Reqs :
       req[r].pc # "done" => (NoMessageBy(r) /\ req[r].writes = 0)
  /\ \A r \in Reqs :
       req[r].pc = "save" => (req[r].aCalls >= 1 /\ req[r].rCalls = 1)
  /\ (Answered /\ Ans.op = "send" /\ Ans.writes # 0) =>
       /\ Ans.writes = 1 /\ Ans.aCalls >= 1 /\ Ans.rCalls = 1
       /\ Ans.stage \in {"ok", "save"}
  /\ (Answered /\ ~NoMessageBy(sent.by)) =>
       (Ans.op = "send" /\ Ans.stage = "ok" /\ Ans.writes = 1)

\* A request has just been answered 200: its pair is stored, after one reply
\* call and at least one analysis call.
PairWrittenAtTheEnd ==
  /\ Answered /\ Ans.op = "send" /\ Ans.stage = "ok"
  /\ ~NoMessageBy(sent.by)
  /\ Ans.aCalls >= 1 /\ Ans.rCalls = 1

\* C15: every stored message list is a concatenation of pairs: a user message
\* and, right after it, the assistant message of the same request; no pair is
\* split by messages of another request and no message stands alone.
PairsOnly ==
  \A i \in 1..Len(sessions) :
    LET ms == sessions[i].messages IN
    /\ Len(ms) % 2 = 0
    /\ \A k \in 1..Len(ms) :
         k % 2 = 1 =>
           /\ ms[k].role = "user"
           /\ k + 1 <= Len(ms)
           /\ ms[k + 1].role = "assistant"
           /\ ms[k + 1].by = ms[k].by

\* Request 1 has just stored its pair behind the pair of request 2, which
\* arrived later and overlapped with it.
PairsOfOverlappingRequests ==
  /\ sent.by = 1 /\ Ans.stage = "ok"
  /\ Len(sessions[1].messages) = 4
  /\ sessions[1].messages[2].by = 2
  /\ sessions[1].messages[4].by = 1

\* C16: whether the event emission succeeds or throws makes no difference to a
\* sendMessage request: from the same state the two outcomes leave the request
\* in the same state, so the rest of the run, the response and the store are
\* the same.
EmitOutcomeIrrelevant ==
  \A r \in Reqs :
    req[r].pc = "emit" =>
      AfterEmit(variant, req[r], TRUE) = AfterEmit(variant, req[r], FALSE)

BeforeLoad == {"auth", "validate", "find", "lookup"}

\* C17: a sendMessage request has emitted no event, and called no LLM, until
\* its session is loaded; once the emission step is over it has emitted exactly
\* one, before its first LLM call, whether the emission succeeded or not; a
\* request answered before the session was loaded has emitted none.
EmitExactlyOnce ==
  /\ \A r \in Reqs :
       LET q == req[r] IN
       /\ q.pc \in {"find", "emit"} =>
            (q.events = 0 /\ q.aCalls = 0 /\ q.rCalls = 0)
       /\ q.pc = "emit" => (q.doc.sessionId = q.sid /\ q.doc.userId = q.caller)
       /\ q.pc = "analysis" => (q.events = 1 /\ q.aCalls = 0)
       /\ q.pc \in {"analysis2", "reply", "save"} => q.events = 1
  /\ (Answered /\ Ans.op = "send") =>
       /\ Ans.stage \in BeforeLoad => Ans.events = 0
       /\ Ans.stage \notin BeforeLoad => Ans.events = 1
       /\ (Ans.aCalls + Ans.rCalls > 0) => Ans.events = 1

\* chat.ts: a request has emitted its event and has not yet called the LLM.
EmittedBeforeFirstCall ==
  /\ variant = "chat"
  /\ \E r \in Reqs :
       /\ req[r].pc = "analysis" /\ req[r].events = 1 /\ req[r].aCalls = 0
       /\ req[r].doc.sessionId = "s1" /\ req[r].caller = "u1"

\* C18: a sendMessage request calls the LLM at most once for the analysis stage
\* and at most once for the reply stage.
NoRetries ==
  /\ \A r \in Reqs : req[r].aCalls <= 1 /\ req[r].rCalls <= 1
  /\ Answered => (Ans.aCalls <= 1 /\ Ans.rCalls <= 1)

\* C19: the reply call is issued after the analysis stage is over: while an
\* analysis call is due no reply call has been made and no prompt built; and
\* the prompt of the reply call embeds the very analysis that the request
\* pushes, stores and returns.
ReplyAfterAnalysis ==
  /\ \A r \in Reqs :
       LET q == req[r] IN
       /\ q.pc \in {"emit", "analysis", "analysis2", "reply"} =>
            (q.rCalls = 0 /\ q.prompt = <<>>)
       /\ q.pc = "reply" => q.aCalls >= 1
       /\ q.pc = "save" =>
            /\ q.aCalls >= 1 /\ q.rCalls = 1
            /\ q.prompt = ResponsePrompt(q.msg, q.pushed[2].metadata.analysis)
  /\ (Answered /\ Ans.op = "send" /\ Ans.rCalls >= 1) => Ans.aCalls >= 1
  /\ (Answered /\ Ans.op = "send" /\ Ans.stage = "ok") =>
       /\ Ans.prompt = ResponsePrompt(Ans.msg, Ans.resp.analysis)
       /\ \A i \in 1..Len(sessions) :
            \A j \in 1..Len(sessions[i].messages) :
              LET m == sessions[i].messages[j] IN
              (m.by = sent.by /\ m.role = "assistant") =>
                Ans.prompt = ResponsePrompt(Ans.msg, m.metadata.analysis)

\* A request whose analysis stage parsed a full analysis has just been
\* answered 200 after a reply call prompted with that analysis.
PromptedWithParsedAnalysis ==
  /\ Answered /\ Ans.op = "send" /\ Ans.stage = "ok"
  /\ Ans.resp.analysis = FullAnalysis
  /\ Ans.prompt = <<"User message:", "hi", "Analysis:", "{full}">>

\* C20: append-only history: every step leaves every session in place, with
\* its identifier and owner, and its stored message list as a prefix of the new
\* one; no stored message is removed, replaced or reordered.
AppendOnly ==
  [][/\ Len(sessions') >= Len(sessions)
     /\ \A i \in 1..Len(sessions) :
          /\ sessions'[i].sessionId = sessions[i].sessionId
          /\ sessions'[i].userId = sessions[i].userId
          /\ Len(sessions'[i].messages) >= Len(sessions[i].messages)
          /\ SubSeq(sessions'[i].messages, 1, Len(sessions[i].messages))
               = sessions[i].messages]_vars

\* Request 2 has just appended its pair behind the stored pair of request 1.
AppendedBehindEarlierPair ==
  /\ sent.by = 2 /\ Ans.stage = "ok"
  /\ Len(sessions[1].messages) = 4
  /\ sessions[1].messages[1].by = 1
  /\ sessions[1].messages[3].by = 2
  /\ req[1].repliedIn = "s1"

\* C21: every step leaves the sessionId, owner, status and start time of every
\* stored session as they are; only createChatSession adds a session; and every
\* session, old or new, has status active.
SessionFieldsFrozen ==
  [][/\ \A i \in 1..Len(sessions) :
          /\ i <= Len(sessions')
          /\ sessions'[i].sessionId = sessions[i].sessionId
          /\ sessions'[i].userId = sessions[i].userId
          /\ sessions'[i].status = sessions[i].status
          /\ sessions'[i].startTime = sessions[i].startTime
     /\ \A i \in 1..Len(sessions') : sessions'[i].status = "active"
     /\ Len(sessions') # Len(sessions) => sent'.req.op = "create"]_vars

\* The second request, a sendMessage, has just appended its pair to s1, which
\* is still u1's active session started at 1.
FieldsKeptAfterAppend ==
  /\ sent.by = 2 /\ Ans.op = "send" /\ Ans.stage = "ok"
  /\ Len(sessions[1].messages) = 2
  /\ sessions[1].sessionId = "s1" /\ sessions[1].userId = "u1"
  /\ sessions[1].status = "active" /\ sessions[1].startTime = 1

SessionIds(coll) == {coll[i].sessionId : i \in 1..Len(coll)}

\* C22: a createChatSession answered 201 has added exactly one session, behind
\* the others, with an identifier that no session had, the caller as owner,
\* status active and no message, and the response carries that identifier; a
\* createChatSession answered otherwise (the store create failed, or the
\* request was rejected) has added none and is answered with an error.
CreateAddsOneSession ==
  [][(sent'.by # 0 /\ sent'.req.op = "create") =>
       LET a == sent'.req
           n == Len(sessions) IN
       IF a.resp.status = 201
         THEN /\ Len(sessions') = n + 1
              /\ SubSeq(sessions', 1, n) = sessions
              /\ sessions'[n + 1].sessionId \notin SessionIds(sessions)
              /\ sessions'[n + 1].userId = a.caller /\ a.caller # NoUser
              /\ sessions'[n + 1].status = "active"
              /\ sessions'[n + 1].messages = <<>>
              /\ a.resp.data = <<[sessionId |-> sessions'[n + 1].sessionId]>>
         ELSE /\ sessions' = sessions
              /\ a.resp.status \in {401, 404, 500}
              /\ a.resp.data = <<>>]_vars

\* u1 has created a second session after the first creation.
CreatedTwice ==
  /\ Answered /\ Ans.op = "create" /\ Ans.resp.status = 201 /\ Ans.caller = "u1"
  /\ Len(sessions) = 3
  /\ sessions[3].sessionId \notin {sessions[1].sessionId, sessions[2].sessionId}

\* C23: createChatSession by an authenticated caller who has no user record is
\* answered 404 and creates no session: no stored session is owned by an
\* identity without a user record.
CreateNeedsUserRecord ==
  /\ (Answered /\ Ans.op = "create" /\ Ans.caller # NoUser
        /\ Ans.caller \notin UserRecords) =>
       Ans.resp.status = 404
  /\ \A i \in 1..Len(sessions) : sessions[i].userId \in UserRecords

\* The time of a session's last update: the timestamp of its last message, or
\* its start time while it has none.
LastUpdated(s) ==
  IF s.messages = <<>> THEN s.startTime
  ELSE s.messages[Len(s.messages)].timestamp

\* C24: a successful listChatSessions returns exactly the caller's sessions,
\* each once, the more recently updated before the less recently updated.
ListedByLastUpdate ==
  (Answered /\ Ans.op = "list" /\ Ans.resp.status = 200) =>
    LET data == Ans.resp.data
        mine == OwnedBy(sessions, Ans.caller)
        Of(e) == FindOneOwned(sessions, e.sessionId, Ans.caller) IN
    /\ Len(data) = Len(mine)
    /\ {data[i].sessionId : i \in 1..Len(data)} = SessionIds(mine)
    /\ \A i, j \in 1..Len(data) :
         i < j => LastUpdated(Of(data[i])) >= LastUpdated(Of(data[j]))

\* C25: along the stored message list of every session the timestamps never
\* decrease, also when two requests take their timestamps in one order and
\* complete their writes in the other.
TimestampsNonDecreasing ==
  \A i \in 1..Len(sessions) :
    LET m == sessions[i].messages IN
    \A j \in 1..Len(m) :
      j > 1 => m[j - 1].timestamp <= m[j].timestamp

\* C26: sendMessage requests on one session exclude nothing of each other:
\* when one of them has just completed its write, its pair is the end of the
\* stored list, and the pair of every request on that session whose write
\* completed before is still stored, whole, before it, whichever of them
\* arrived first.
StoredInWriteOrder ==
  (Answered /\ Ans.op = "send" /\ Ans.stage = "ok") =>
    LET m == FindOneById(sessions, Ans.sid).messages
        n == Len(m) IN
    /\ n >= 2
    /\ m[n - 1].by = sent.by /\ m[n - 1].role = "user"
    /\ m[n].by = sent.by /\ m[n].role = "assistant"
    /\ m[n].content = Ans.resp.response
    /\ \A o \in Reqs \ {sent.by} :
         req[o].repliedIn = Ans.sid =>
           \E k \in 1..(n - 3) :
             /\ m[k].by = o /\ m[k].role = "user"
             /\ m[k + 1].by = o /\ m[k + 1].role = "assistant"

\* Request 1 arrived first and took its timestamp first, request 2 completed
\* its write first: both are answered with success and the pair of request 2
\* is stored before the pair of request 1.
LaterArrivalStoredFirst ==
  /\ sent.by = 1 /\ Ans.stage = "ok" /\ Ans.resp.status = 200
  /\ req[2].repliedIn = "s1"
  /\ Len(sessions[1].messages) = 4
  /\ sessions[1].messages[1].by = 2 /\ sessions[1].messages[2].by = 2
  /\ sessions[1].messages[3].by = 1 /\ sessions[1].messages[4].by = 1
  /\ sessions[1].messages[3].timestamp < sessions[1].messages[1].timestamp

\* The timestamps the store holds: of the messages and of the sessions.
StoredTimestamps ==
  UNION {{sessions[i].messages[j].timestamp : j \in 1..Len(sessions[i].messages)}
           : i \in 1..Len(sessions)}
    \cup {sessions[i].startTime : i \in 1..Len(sessions)}

ReplyTexts ==
  {Undefined, <<>>, <<WS>>, <<WS, WS>>, <<"ok">>, <<WS, "ok">>, <<"ok", WS>>,
   <<WS, "ok", WS, "then", WS>>}

\* C28: the reply of a successful reply call is the provider's text trimmed,
\* and the one default sentence when that is empty (the text is absent, empty
\* or whitespace only); a reply call that returned no text does not fail the
\* request; and every stored assistant message and every returned reply is a
\* non-empty text.
ReplyNeverEmpty ==
  /\ \A c \in ReplyTexts :
       AiResponse(variant, LLM(TRUE, c, "")) =
         IF Blank(c) THEN DefaultReply(variant) ELSE Trim(c)
  /\ DefaultReply(variant) # <<>> /\ ~Blank(DefaultReply(variant))
  /\ \A r \in Reqs :
       req[r].pc = "save" =>
         /\ req[r].rOut \in {"empty", "text"}
         /\ req[r].rOut = "empty" => req[r].pushed[2].content = DefaultReply(variant)
         /\ req[r].rOut = "text" =>
              /\ ~Blank(req[r].pushed[2].content)
              /\ Trim(req[r].pushed[2].content) = req[r].pushed[2].content
  /\ (Answered /\ Ans.op = "send" /\ Ans.rOut = "empty") =>
       /\ Ans.stage \in {"push", "save", "ok"}
       /\ Ans.stage = "ok" =>
            (Ans.resp.status = 200 /\ Ans.resp.response = DefaultReply(variant))
  /\ (Answered /\ Ans.op = "send" /\ Ans.resp.status = 200) =>
       (Ans.resp.response # <<>> /\ ~Blank(Ans.resp.response))
  /\ \A i \in 1..Len(sessions) :
       \A j \in 1..Len(sessions[i].messages) :
         LET m == sessions[i].messages[j] IN
         m.role = "assistant" =>
           (m.content # <<>> /\ ~Blank(m.content) /\ Trim(m.content) = m.content)

\* The reply call returned no text and the request has just been answered 200
\* with the default sentence, which is stored as the assistant message.
AnsweredWithDefaultReply ==
  /\ Answered /\ Ans.op = "send" /\ Ans.stage = "ok" /\ Ans.rOut = "empty"
  /\ Ans.resp.response = DefaultReply(variant)
  /\ LET m == FindOneById(sessions, Ans.sid).messages IN
       m[Len(m)].role = "assistant" /\ m[Len(m)].content = DefaultReply(variant)

\* C29: every stored message has role user or assistant; a user message carries
\* no metadata; an assistant message carries metadata holding an Analysis (the
\* five-field record), and the pair a request is about to save holds in its
\* metadata the analysis that request computed.
MetadataOnAssistantOnly ==
  /\ \A i \in 1..Len(sessions) :
       \A j \in 1..Len(sessions[i].messages) :
         LET m == sessions[i].messages[j] IN
         /\ m.role \in {"user", "assistant"}
         /\ m.role = "user" => m.metadata = NoMeta
         /\ m.role = "assistant" =>
              (m.metadata.has /\ WellFormed(m.metadata.analysis))
  /\ \A r \in Reqs :
       req[r].pc = "save" =>
         /\ req[r].pushed[1].metadata = NoMeta
         /\ req[r].pushed[2].metadata.has
         /\ req[r].pushed[2].metadata.analysis = req[r].analysis

\* C30: when every external call returns or throws, every sendMessage request
\* that is in the pipeline is eventually answered; a request is answered only
\* by the step that ends it, and once ended it stays ended, so it is answered
\* exactly once.
ExactlyOneResponse ==
  /\ \A r \in Reqs : (r \in InFlight) ~> (req[r].pc = "done")
  /\ [][\A r \in Reqs :
          /\ sent'.by = r => (req[r].pc # "done" /\ req'[r].pc = "done")
          /\ (req[r].pc # "done" /\ req'[r].pc = "done") => sent'.by = r
          /\ req[r].pc = "done" => req'[r].pc = "done"]_vars

\* Both requests went through the whole pipeline: the first was answered with
\* success, the second has just been answered with the failure of its store
\* write.
BothAnsweredAtTheEnd ==
  /\ sent.by = 2 /\ Ans.op = "send" /\ Ans.stage = "save" /\ Ans.resp.status = 500
  /\ req[1].repliedIn = "s1" /\ req[2].pc = "done"
  /\ InFlight = {}

\* C31: in the state in which sendMessage has answered with success the pair
\* of that request is stored in its session, and it is what the caller sent and
\* got: the user message holds the text sent, the assistant message the
\* returned reply, and its metadata the returned analysis.
ResponseMatchesStoredPair ==
  (Answered /\ Ans.op = "send" /\ Ans.resp.status = 200) =>
    LET m == FindOneById(sessions, Ans.sid).messages
        mine == SelectSeq(m, LAMBDA x : x.by = sent.by) IN
    /\ Len(mine) = 2
    /\ mine[1].role = "user" /\ mine[1].content = Ans.msg
    /\ mine[2].role = "assistant" /\ mine[2].content = Ans.resp.response
    /\ Ans.resp.hasAnalysis
    /\ mine[2].metadata.analysis = Ans.resp.analysis

\* A request has just been answered with the analysis parsed from the
\* provider's JSON and with the provider's reply, and its pair is stored.
AnsweredWithParsedAnalysis ==
  /\ Answered /\ Ans.op = "send" /\ Ans.resp.status = 200
  /\ Ans.resp.analysis = FullAnalysis
  /\ Ans.resp.response = <<"take a breath">>
  /\ Len(FindOneById(sessions, Ans.sid).messages) = 2

\* C32: when an analysis call of a request was answered with the Analysis JSON
\* object wrapped in fence markers, the analysis with which the request leaves
\* the analysis stage is that object parsed, not the default record.
FencedAnalysisIsParsed ==
  [][\A r \in Reqs :
       (/\ req[r].pc \in {"analysis", "analysis2"}
        /\ req'[r].pc = "reply"
        /\ \/ req'[r].aOut = "fenced"
           \/ (req[r].pc = "analysis2" /\ req[r].aOut = "fenced"))
         => req'[r].analysis = FullAnalysis]_vars

\* C33: getChatHistory called by the owner of the session, the store answering,
\* is answered 200 with one entry for every stored message, in stored order,
\* each with the role, the content, the timestamp (as ISO text) and the
\* metadata of the stored message, which a user message does not have; and
\* the history keeps all of that on its way through the front end's GET route.
HistoryIsComplete ==
  (/\ Answered /\ Ans.op = "history" /\ Ans.stage # "find"
   /\ Ans.caller # NoUser
   /\ FindOneById(sessions, Ans.sid) # NoSession
   /\ FindOneById(sessions, Ans.sid).userId = Ans.caller) =>
    LET data == Ans.resp.data
        routed == HistoryRouteBody(data)
        m == FindOneById(sessions, Ans.sid).messages IN
    /\ Ans.resp.status = 200
    /\ Len(data) = Len(m) /\ Len(routed) = Len(m)
    /\ \A i \in 1..Len(m) :
         /\ data[i].role = m[i].role /\ routed[i].role = m[i].role
         /\ data[i].content = m[i].content /\ routed[i].content = m[i].content
         /\ data[i].timestamp = ToISOString(m[i].timestamp)
         /\ routed[i].timestamp = data[i].timestamp
         /\ data[i].metadata = m[i].metadata
         /\ data[i].metadata.has <=> m[i].role = "assistant"
         /\ routed[i].metadata = m[i].metadata

\* C34: a sendMessage request of an authenticated caller with a blank message
\* (missing, empty or whitespace only) that names a session which does not
\* exist or belongs to somebody else is answered 400, not 404 or 403, and has
\* read nothing from the store.
ValidationBeforeLookup ==
  (/\ Answered /\ Ans.op = "send" /\ Ans.caller # NoUser /\ Blank(Ans.msg)
   /\ \/ FindOneById(sessions, Ans.sid) = NoSession
      \/ Foreign(Ans.sid, Ans.caller)) =>
    (Ans.resp.status = 400 /\ Ans.reads = 0)

\* C35: every LLM call of a sendMessage request is handed one and the same
\* history: the window of the session as the request loaded it. The loaded
\* session holds no message of the request itself, and what other requests
\* stored after the load is behind it in the store and not in the window.
SameWindowForEveryCall ==
  \A r \in Reqs :
    req[r].pc \in {"analysis", "analysis2", "reply", "save"} =>
      LET q == req[r]
          stored == FindOneById(sessions, q.doc.sessionId).messages
          n == Len(q.doc.messages) IN
      /\ q.hists \subseteq {LastStored(q.doc.messages)}
      /\ q.aCalls + q.rCalls > 0 => q.hists # {}
      /\ \A j \in 1..n : q.doc.messages[j].by # r
      /\ n <= Len(stored) /\ SubSeq(stored, 1, n) = q.doc.messages

\* C36: a front-end route that got a non-OK answer from the backend responds
\* with the backend's status, whatever the body of that answer is.
RouteForwardsStatus ==
  (/\ Answered /\ Ans.op \in ProxyRoutes
   /\ Ans.upstream.called /\ ~Ans.upstream.thrown
   /\ ~ResponseOk(Ans.upstream.status)) =>
    Ans.resp.status = Ans.upstream.status

\* C37: in processChatMessage the risk-alert step runs exactly when the
\* riskLevel of the analysis is greater than 4; the step changes nothing but the
\* count of logged warnings, so what the function returns is the response of
\* generate-response, the analysis and the updated memory as they were before
\* the step. The function always returns: a failed analysis call or parse gives
\* the default analysis, a failed reply call gives a fixed reply, and an error
\* outside the two guarded steps gives the fixed reply of the outer catch with
\* the default analysis.
RiskAlertOnlyLogs ==
  [][\A r \in Reqs :
       LET q == req[r]
           risky == HasField(q.analysis, "riskLevel") /\ q.analysis.v.riskLevel > 4 IN
       /\ (q.pc = "update-memory" /\ req'[r].pc = "trigger-risk-alert") => risky
       /\ (q.pc = "update-memory" /\ req'[r].pc = "generate-response") => ~risky
       /\ (q.pc = "trigger-risk-alert" /\ req'[r] # q) =>
            req'[r] = [q EXCEPT !.pc = "generate-response", !.warnings = 1]
       /\ (q.pc = "generate-response" /\ sent'.by = r) =>
            /\ q.warnings = (IF risky THEN 1 ELSE 0)
            /\ sent'.req.stage = "ok"
            /\ sent'.req.resp.response # <<>>
            /\ sent'.req.resp.analysis = q.analysis
            /\ sent'.req.resp.data = <<q.memory>>
            /\ q.aOut \in {"throw", "empty", "unparsable"} =>
                 q.analysis = BackgroundDefaultAnalysis
            /\ sent'.req.rOut = "throw" =>
                 sent'.req.resp.response =
                   <<"I'm here to support you. Could you tell me more?">>
            /\ q.memory.riskLevel =
                 (IF HasField(q.analysis, "riskLevel")
                    THEN q.analysis.v.riskLevel ELSE 0)
       /\ (q.pc = "update-memory" /\ sent'.by = r) =>
            /\ sent'.req.stage = "catch" /\ sent'.req.warnings = 0
            /\ sent'.req.resp = BackgroundFallback(q)
       /\ (q.op = "process" /\ q.pc # "done" /\ req'[r].pc = "done") =>
            sent'.by = r]_vars

\* A run with an analysis of riskLevel 5 logged one warning and has just
\* returned that analysis and the memory updated with it.
AlertedAndReturned ==
  /\ Answered /\ Ans.op = "process" /\ Ans.stage = "ok" /\ Ans.warnings = 1
  /\ Ans.resp.analysis = FullAnalysis
  /\ Ans.resp.data = <<UpdateMemory(EventMemory, FullAnalysis)>>

\* C37 as stated: the alert was logged exactly when the returned riskLevel is
\* greater than 4, and after any error the function returns a fixed reply
\* together with the default analysis.
StaticFallbackOnAnyError ==
  (Answered /\ Ans.op = "process") =>
    LET a == Ans.resp.analysis
        failed == \/ Ans.stage = "catch"
                  \/ Ans.aOut \in {"throw", "empty", "unparsable"}
                  \/ Ans.rOut = "throw" IN
    /\ Ans.warnings = 1 <=> (HasField(a, "riskLevel") /\ a.v.riskLevel > 4)
    /\ failed =>
         /\ Ans.resp.response \in
              {<<"I'm here to support you.">>,
               <<"I'm here to support you. Could you tell me more?">>,
               <<"I'm here to support you. Could you tell me more about what's on your mind?">>}
         /\ a = BackgroundDefaultAnalysis

====
